---- MODULE Spec2Model ----
(***************************************************************************)
(* Model of the medical-search pipeline: the three route handlers          *)
(* (translate, ai-search, search), the backend clients they call, and the  *)
(* page's handleSearch flow that sequences them.                           *)
(*                                                                         *)
(* Text is modelled as a sequence of one-character strings, so that        *)
(* toLowerCase, includes, trim, join and encodeURIComponent are computed   *)
(* character by character as the JavaScript library computes them.  The    *)
(* alphabet is well-formed text (letters, space, comma, newline).          *)
(***************************************************************************)
EXTENDS Integers, Sequences, FiniteSets, TLC

VARIABLES
    env,              \* process.env: which credentials are configured
    req,              \* the latest HTTP request to a route handler
    resp,             \* its HTTP response, NoResp while it is being handled
    calls,            \* outbound fetches of the handler whose response is in resp
    contrib,          \* per source, what its backend client returned to search
    cpc,              \* where handleSearch stands
    flow,             \* the route requests handleSearch issued, with outcomes
    query, sources, translatedQuery, aiAnswer, aiSources, results,
    loading, error,   \* the useState cells of the page
    promises,         \* the promises array of the search handler
    settled,          \* the indices of promises, in the order they settled
    fpc               \* where the search handler stands

vars == <<env, req, resp, calls, contrib, cpc, flow, query, sources,
          translatedQuery, aiAnswer, aiSources, results, loading, error,
          promises, settled, fpc>>

fanVars == <<promises, settled, fpc>>

serverVars == <<req, resp, calls, contrib>>

pageVars == <<cpc, flow, query, sources, translatedQuery, aiAnswer, aiSources,
              results, loading, error>>

(***************************************************************************)
(* Bounds of the model.                                                    *)
(***************************************************************************)
\* largest id list an esearch reply carries (the request asks for retmax=5)
MaxIds == 6
\* largest feed.entry list a MedlinePlus reply carries (the code keeps 3)
MaxEntries == 4
\* largest items list a Custom Search reply carries
MaxItems == 2

(***************************************************************************)
(* JavaScript strings.                                                     *)
(***************************************************************************)
Upper == <<"A","B","C","D","E","F","G","H","I","J","K","L","M",
           "N","O","P","Q","R","S","T","U","V","W","X","Y","Z">>
Lower == <<"a","b","c","d","e","f","g","h","i","j","k","l","m",
           "n","o","p","q","r","s","t","u","v","w","x","y","z">>

LowerChar(c) ==
    IF \E i \in 1..Len(Upper) : Upper[i] = c
    THEN Lower[CHOOSE i \in 1..Len(Upper) : Upper[i] = c]
    ELSE c

\* String.prototype.toLowerCase
toLowerCase(s) == [i \in 1..Len(s) |-> LowerChar(s[i])]

\* String.prototype.includes
includes(hay, needle) ==
    \E i \in 0..(Len(hay) - Len(needle)) :
        SubSeq(hay, i + 1, i + Len(needle)) = needle

IsSpace(c) == c \in {" ", "\n", "\t"}

\* String.prototype.trim
trim(s) ==
    LET keep == {i \in 1..Len(s) : ~IsSpace(s[i])}
    IN  IF keep = {} THEN <<>>
        ELSE LET lo == CHOOSE i \in keep : \A j \in keep : i <= j
                 hi == CHOOSE i \in keep : \A j \in keep : j <= i
             IN  SubSeq(s, lo, hi)

RECURSIVE join(_, _)
\* Array.prototype.join
join(parts, sep) ==
    IF Len(parts) = 0 THEN <<>>
    ELSE IF Len(parts) = 1 THEN parts[1]
    ELSE parts[1] \o sep \o join(Tail(parts), sep)

EncodeChar(c) ==
    IF c = " " THEN <<"%","2","0">>
    ELSE IF c = "," THEN <<"%","2","C">>
    ELSE IF c = "\n" THEN <<"%","0","A">>
    ELSE <<c>>

RECURSIVE encodeURIComponent(_)
\* encodeURIComponent: letters and digits are kept, the rest is escaped
encodeURIComponent(s) ==
    IF Len(s) = 0 THEN <<>>
    ELSE EncodeChar(Head(s)) \o encodeURIComponent(Tail(s))

\* a JSON field that may be missing: def = FALSE models undefined
Undef == [def |-> FALSE, str |-> <<>>]
Str(s) == [def |-> TRUE, str |-> s]

\* JavaScript truthiness of an optional string: !v
Falsy(v) == ~v.def \/ v.str = <<>>

(***************************************************************************)
(* translate route: the fallback keyword mapper.                           *)
(***************************************************************************)
\* the layman -> medical table, in the insertion order Object.entries uses
mappings == <<
  [layman  |-> <<"h","e","a","d","a","c","h","e">>,
   medical |-> <<"c","e","p","h","a","l","g","i","a">>],
  [layman  |-> <<"l","i","g","h","t"," ","s","e","n","s","i","t","i","v","i","t","y">>,
   medical |-> <<"p","h","o","t","o","p","h","o","b","i","a">>],
  [layman  |-> <<"n","a","u","s","e","a">>,
   medical |-> <<"n","a","u","s","e","a">>],
  [layman  |-> <<"v","o","m","i","t","i","n","g">>,
   medical |-> <<"e","m","e","s","i","s">>],
  [layman  |-> <<"f","e","v","e","r">>,
   medical |-> <<"p","y","r","e","x","i","a">>],
  [layman  |-> <<"c","h","e","s","t"," ","p","a","i","n">>,
   medical |-> <<"c","h","e","s","t"," ","p","a","i","n"," ","a","n","g","i","n","a">>],
  [layman  |-> <<"s","h","o","r","t","n","e","s","s"," ","o","f"," ","b","r","e","a","t","h">>,
   medical |-> <<"d","y","s","p","n","e","a">>],
  [layman  |-> <<"d","i","z","z","y">>,
   medical |-> <<"v","e","r","t","i","g","o"," ","d","i","z","z","i","n","e","s","s">>],
  [layman  |-> <<"s","t","o","m","a","c","h"," ","p","a","i","n">>,
   medical |-> <<"a","b","d","o","m","i","n","a","l"," ","p","a","i","n">>],
  [layman  |-> <<"h","e","a","r","t"," ","r","a","c","i","n","g">>,
   medical |-> <<"t","a","c","h","y","c","a","r","d","i","a"," ","p","a","l","p","i","t","a","t","i","o","n","s">>]
>>

RECURSIVE MatchedTerms(_, _)
\* the for-loop of fallbackTranslation from table row i on: terms.push
MatchedTerms(keywords, i) ==
    IF i > Len(mappings) THEN <<>>
    ELSE (IF includes(keywords, mappings[i].layman)
          THEN <<mappings[i].medical>> ELSE <<>>)
         \o MatchedTerms(keywords, i + 1)

\* fallbackTranslation returning the lowercased copy when nothing matches
fallbackTranslation_Lowercased(q) ==
    LET keywords == toLowerCase(q)
        terms == MatchedTerms(keywords, 1)
    IN  IF Len(terms) > 0 THEN join(terms, <<",", " ">>) ELSE keywords

fallbackTranslation(q) ==
    LET keywords == toLowerCase(q)
        terms == MatchedTerms(keywords, 1)
    IN  IF Len(terms) > 0 THEN join(terms, <<",", " ">>) ELSE q

(***************************************************************************)
(* Backend replies.  A reply is what one fetch plus response.json() can    *)
(* yield: the fetch rejects, the status is not ok, the body is not JSON,   *)
(* or the body is JSON of some shape.                                      *)
(***************************************************************************)
Flu == <<" ","f","l","u","\n">>

\* candidate: content[0] / choices[0] / candidates[0] exists
LLMReply(kind, candidate, finish, hasText, text) ==
    [kind |-> kind, candidate |-> candidate, finish |-> finish,
     hasText |-> hasText, text |-> text]

NoReply == LLMReply("none", FALSE, "STOP", FALSE, <<>>)

LLMReplies ==
    { LLMReply(k, FALSE, "STOP", FALSE, <<>>) : k \in {"reject", "status", "badjson", "json"} }
    \cup { LLMReply("json", TRUE, "STOP", FALSE, <<>>),
           LLMReply("json", TRUE, "MAX_TOKENS", TRUE, Flu) }
    \cup { LLMReply("json", TRUE, "STOP", TRUE, t) : t \in {<<>>, <<" ">>, Flu} }

\* result of an async function: it either throws or returns a string
Throw(msg) == [threw |-> TRUE, message |-> msg, value |-> <<>>]
Return(v) == [threw |-> FALSE, message |-> "", value |-> v]

translateWithAnthropic(r) ==
    IF r.kind = "reject" THEN Throw("fetch failed")
    ELSE IF r.kind = "status" THEN Throw("Anthropic API error")
    ELSE IF r.kind = "badjson" THEN Throw("SyntaxError")
    ELSE IF ~r.candidate \/ ~r.hasText THEN Throw("TypeError")
    ELSE Return(trim(r.text))

translateWithOpenAI(r) ==
    IF r.kind = "reject" THEN Throw("fetch failed")
    ELSE IF r.kind = "status" THEN Throw("OpenAI API error")
    ELSE IF r.kind = "badjson" THEN Throw("SyntaxError")
    ELSE IF ~r.candidate \/ ~r.hasText THEN Throw("TypeError")
    ELSE Return(trim(r.text))

translateWithGoogle(r) ==
    IF r.kind = "reject" THEN Throw("fetch failed")
    ELSE IF r.kind = "status" THEN Throw("Google API error")
    ELSE IF r.kind = "badjson" THEN Throw("SyntaxError")
    ELSE IF ~r.candidate THEN Throw("Inget svar fran Gemini API")
    ELSE IF r.finish = "MAX_TOKENS" THEN Throw("Svaret blev for langt (MAX_TOKENS)")
    ELSE IF ~r.hasText \/ r.text = <<>> THEN Throw("Tomt svar fran Gemini")
    ELSE Return(trim(r.text))

(***************************************************************************)
(* Requests to and responses of the route handlers.                        *)
(***************************************************************************)
SourceIds == {"pubmed", "medlineplus", "internetmedicin", "orto"}

AllSources == [s \in SourceIds |-> TRUE]

Selections == [SourceIds -> BOOLEAN]

Request(route, from, q, mt, hasSources, sel) ==
    [route |-> route, from |-> from, query |-> q, medicalTerms |-> mt,
     hasSources |-> hasSources, sources |-> sel]

NoReq == Request("none", "none", Undef, Undef, FALSE, AllSources)

Response(route, from, status, err, details) ==
    [route |-> route, from |-> from, status |-> status, decodable |-> TRUE,
     error |-> err, details |-> details,
     medicalTerms |-> <<>>, answer |-> <<>>, sources |-> <<>>,
     hasGrounding |-> FALSE, results |-> <<>>]

NoResp == Response("none", "none", 0, "", "")

\* one outbound fetch: the endpoint, whether the body carries the
\* google_search_retrieval tool, the sources a generation prompt names, and
\* how the backend answered ("ok", "failed", or "unsupported" for a
\* grounding-unsupported failure)
\* grounding: the groundingChunks a generation reply carried
Call(endpoint, tools, scope, outcome) ==
    [endpoint |-> endpoint, tools |-> tools, scope |-> scope, outcome |-> outcome,
     grounding |-> [present |-> FALSE, chunks |-> <<>>]]

\* a transport failure, a bad status or a body without the expected fields
LLMOutcome(r) ==
    IF r.kind # "json" \/ ~r.candidate \/ ~r.hasText THEN "failed" ELSE "ok"

\* the if/else chain with its first two branches swapped
SelectProvider_OpenAIFirst(e) ==
    IF e.openai THEN "openai"
    ELSE IF e.anthropic THEN "anthropic"
    ELSE IF e.google THEN "google"
    ELSE "fallback"

\* the provider the if/else chain of the translate handler takes
SelectProvider(e) ==
    IF e.anthropic THEN "anthropic"
    ELSE IF e.openai THEN "openai"
    ELSE IF e.google THEN "google"
    ELSE "fallback"

\* a validation that tests query === undefined only
QueryMissing_OnlyUndefined(q) == ~q.def

\* the request validation of the translate and search handlers: !query
QueryMissing(q) == Falsy(q)

\* a translate handler whose catch block answers with the keyword mapper
TranslateHandler_FallsBack(e, rq, r) ==
    IF QueryMissing(rq.query)
    THEN [resp |-> Response("translate", rq.from, 400, "Query is required", ""),
          calls |-> <<>>]
    ELSE LET p == SelectProvider(e)
             out == IF p = "anthropic" THEN translateWithAnthropic(r)
                    ELSE IF p = "openai" THEN translateWithOpenAI(r)
                    ELSE IF p = "google" THEN translateWithGoogle(r)
                    ELSE Return(fallbackTranslation(rq.query.str))
             log == IF p = "fallback" THEN <<>> ELSE <<Call(p, FALSE, <<>>, LLMOutcome(r))>>
         IN  [resp |-> [Response("translate", rq.from, 200, "", "")
                          EXCEPT !.medicalTerms =
                                   IF out.threw THEN fallbackTranslation(rq.query.str)
                                   ELSE out.value],
              calls |-> log]

\* the translate handler: rq is the request, r the reply of the provider
\* it calls.  The result is the response and the log of outbound requests.
TranslateHandler(e, rq, r) ==
    IF QueryMissing(rq.query)
    THEN [resp |-> Response("translate", rq.from, 400, "Query is required", ""),
          calls |-> <<>>]
    ELSE LET p == SelectProvider(e)
             out == IF p = "anthropic" THEN translateWithAnthropic(r)
                    ELSE IF p = "openai" THEN translateWithOpenAI(r)
                    ELSE IF p = "google" THEN translateWithGoogle(r)
                    ELSE Return(fallbackTranslation(rq.query.str))
             log == IF p = "fallback" THEN <<>> ELSE <<Call(p, FALSE, <<>>, LLMOutcome(r))>>
         IN  IF out.threw
             THEN [resp |-> Response("translate", rq.from, 500,
                                     "Translation failed", out.message),
                   calls |-> log]
             ELSE [resp |-> [Response("translate", rq.from, 200, "", "")
                               EXCEPT !.medicalTerms = out.value],
                   calls |-> log]

(***************************************************************************)
(* search route: the four backend clients.                                 *)
(***************************************************************************)
\* a template literal `${base}${arg}`
Template(base, arg) == [base |-> base, arg |-> arg]

SearchResult(title, snippet, url, source) ==
    [title |-> title, snippet |-> snippet, url |-> url, source |-> source]

\* identifiers of the items a backend returns
ItemIds == <<"1","2","3","4","5","6","7","8","9">>

Min(a, b) == IF a < b THEN a ELSE b

\* Array.prototype.slice(0, n)
slice(s, n) == SubSeq(s, 1, Min(n, Len(s)))

RECURSIVE flat(_)
\* Array.prototype.flat
flat(arrays) ==
    IF Len(arrays) = 0 THEN <<>> ELSE Head(arrays) \o flat(Tail(arrays))

EsearchReply(kind, hasIdlist, ids) ==
    [kind |-> kind, hasIdlist |-> hasIdlist, ids |-> ids]

NoEsearch == EsearchReply("none", FALSE, <<>>)

EsearchReplies ==
    { EsearchReply(k, FALSE, <<>>) : k \in {"reject", "status", "badjson", "json"} }
    \cup { EsearchReply("json", TRUE, SubSeq(ItemIds, 1, n)) : n \in {0, MaxIds} }

\* have: the ids for which summaryData.result holds an article
EsummaryReply(kind, have) == [kind |-> kind, have |-> have]

NoEsummary == EsummaryReply("none", {})

Range(s) == {s[i] : i \in 1..Len(s)}

EsummaryReplies(ids) ==
    { EsummaryReply(k, {}) : k \in {"reject", "status", "badjson", "json"} }
    \cup { EsummaryReply("json", Range(ids)),
           EsummaryReply("json", Range(ids) \ {ids[1]}) }

\* a transport failure, a bad status or a body that is not JSON
JsonOutcome(r) == IF r.kind # "json" THEN "failed" ELSE "ok"

EsearchOutcome(es) ==
    IF es.kind # "json" \/ ~es.hasIdlist THEN "failed" ELSE "ok"

PubMedResult(id) ==
    SearchResult(Template("article.title", <<id>>), "authors - source (pubdate)",
                 Template("https://pubmed.ncbi.nlm.nih.gov/", <<id, "/">>),
                 "PubMed")

\* a searchPubMed whose catch block returns a direct-search link, as the
\* site clients do
searchPubMed_ErrorLink(q, es, su) ==
    LET c1 == Call("pubmed_esearch", FALSE, <<>>, EsearchOutcome(es))
        c2 == Call("pubmed_esummary", FALSE, <<>>, JsonOutcome(su))
        link == <<SearchResult(Template("Search PubMed for: ", q), "Error fetching results",
                               Template("https://pubmed.ncbi.nlm.nih.gov/?term=",
                                        encodeURIComponent(q)), "PubMed")>>
        ids == IF es.hasIdlist THEN es.ids ELSE <<>>
    IN  IF es.kind # "json" THEN [results |-> link, calls |-> <<c1>>]
        ELSE IF Len(ids) = 0 THEN [results |-> <<>>, calls |-> <<c1>>]
        ELSE IF su.kind # "json" THEN [results |-> link, calls |-> <<c1, c2>>]
        ELSE LET found == SelectSeq(ids, LAMBDA id : id \in su.have)
             IN  [results |-> [i \in 1..Len(found) |-> PubMedResult(found[i])],
                  calls |-> <<c1, c2>>]

\* es: the reply of esearch, su: the reply of esummary
searchPubMed(q, es, su) ==
    LET c1 == Call("pubmed_esearch", FALSE, <<>>, EsearchOutcome(es))
        c2 == Call("pubmed_esummary", FALSE, <<>>, JsonOutcome(su))
        ids == IF es.hasIdlist THEN es.ids ELSE <<>>
    IN  IF es.kind # "json" THEN [results |-> <<>>, calls |-> <<c1>>]
        ELSE IF Len(ids) = 0 THEN [results |-> <<>>, calls |-> <<c1>>]
        ELSE IF su.kind # "json" THEN [results |-> <<>>, calls |-> <<c1, c2>>]
        ELSE LET found == SelectSeq(ids, LAMBDA id : id \in su.have)
             IN  [results |-> [i \in 1..Len(found) |-> PubMedResult(found[i])],
                  calls |-> <<c1, c2>>]

\* entries: data.feed.entry, a missing feed being the empty list
MedlineReply(kind, entries) == [kind |-> kind, entries |-> entries]

NoMedline == MedlineReply("none", <<>>)

MedlineReplies ==
    { MedlineReply(k, <<>>) : k \in {"reject", "status", "badjson"} }
    \cup { MedlineReply("json", SubSeq(ItemIds, 1, n)) : n \in {0, 1, MaxEntries} }

\* entries.slice(0, 3)
MedlineCap == 3

MedlineResult(entry) ==
    SearchResult(Template("entry.title", <<entry>>), "summary.substring(0, 200)",
                 Template("entry.link.href", <<entry>>), "MedlinePlus")

\* a client that repeats its fetch once after a failure
searchMedlinePlus_Retry(q, r) ==
    LET c == Call("medlineplus", FALSE, <<>>, JsonOutcome(r))
    IN  IF r.kind # "json" THEN [results |-> <<>>, calls |-> <<c, c>>]
        ELSE LET kept == slice(r.entries, MedlineCap)
             IN  [results |-> [i \in 1..Len(kept) |-> MedlineResult(kept[i])],
                  calls |-> <<c>>]

searchMedlinePlus(q, r) ==
    LET c == Call("medlineplus", FALSE, <<>>, JsonOutcome(r))
    IN  IF r.kind # "json" THEN [results |-> <<>>, calls |-> <<c>>]
        ELSE LET kept == slice(r.entries, MedlineCap)
             IN  [results |-> [i \in 1..Len(kept) |-> MedlineResult(kept[i])],
                  calls |-> <<c>>]

CseReply(kind, hasItems, items) ==
    [kind |-> kind, hasItems |-> hasItems, items |-> items]

NoCse == CseReply("none", FALSE, <<>>)

CseReplies ==
    { CseReply(k, FALSE, <<>>) : k \in {"reject", "status", "badjson", "json"} }
    \cup { CseReply("json", TRUE, SubSeq(ItemIds, 1, MaxItems)) }

\* a test that forgets the CSE identifier
NoSiteSearch_KeyOnly(e) == ~e.google

\* !googleApiKey || !googleCseId || googleCseId === 'your_cse_id_here'
NoSiteSearch(e) == ~e.google \/ e.cse = "none" \/ e.cse = "placeholder"

searchInternetmedicin(q, e, r) ==
    LET searchUrl == Template("https://www.internetmedicin.se/search?q=",
                              encodeURIComponent(q))
        title == Template("Search Internetmedicin for: ", q)
        c == Call("cse_internetmedicin", FALSE, <<>>, JsonOutcome(r))
    IN  IF NoSiteSearch(e)
        THEN [results |-> <<SearchResult(title, "Click to search Internetmedicin.se",
                                         searchUrl, "Internetmedicin")>>,
              calls |-> <<>>]
        ELSE IF r.kind # "json"
        THEN [results |-> <<SearchResult(title,
                                         "Error fetching results. Click to search directly.",
                                         searchUrl, "Internetmedicin")>>,
              calls |-> <<c>>]
        ELSE IF ~r.hasItems THEN [results |-> <<>>, calls |-> <<c>>]
        ELSE [results |-> [i \in 1..Len(r.items) |->
                             SearchResult(Template("item.title", <<r.items[i]>>),
                                          "item.snippet",
                                          Template("item.link", <<r.items[i]>>),
                                          "Internetmedicin")],
              calls |-> <<c>>]

\* a searchOrto whose catch block returns nothing, as searchPubMed does
searchOrto_EmptyOnError(q, e, r) ==
    LET searchUrl == Template("https://www.orto.nu/search?q=",
                              encodeURIComponent(q))
        title == Template("Search Orto.nu for: ", q)
        c == Call("cse_orto", FALSE, <<>>, JsonOutcome(r))
    IN  IF NoSiteSearch(e)
        THEN [results |-> <<SearchResult(title, "Click to search Orto.nu",
                                         searchUrl, "Orto.nu")>>,
              calls |-> <<>>]
        ELSE IF r.kind # "json"
        THEN [results |-> <<>>, calls |-> <<c>>]
        ELSE IF ~r.hasItems THEN [results |-> <<>>, calls |-> <<c>>]
        ELSE [results |-> [i \in 1..Len(r.items) |->
                             SearchResult(Template("item.title", <<r.items[i]>>),
                                          "item.snippet",
                                          Template("item.link", <<r.items[i]>>),
                                          "Orto.nu")],
              calls |-> <<c>>]

searchOrto(q, e, r) ==
    LET searchUrl == Template("https://www.orto.nu/search?q=",
                              encodeURIComponent(q))
        title == Template("Search Orto.nu for: ", q)
        c == Call("cse_orto", FALSE, <<>>, JsonOutcome(r))
    IN  IF NoSiteSearch(e)
        THEN [results |-> <<SearchResult(title, "Click to search Orto.nu",
                                         searchUrl, "Orto.nu")>>,
              calls |-> <<>>]
        ELSE IF r.kind # "json"
        THEN [results |-> <<SearchResult(title,
                                         "Error fetching results. Click to search directly.",
                                         searchUrl, "Orto.nu")>>,
              calls |-> <<c>>]
        ELSE IF ~r.hasItems THEN [results |-> <<>>, calls |-> <<c>>]
        ELSE [results |-> [i \in 1..Len(r.items) |->
                             SearchResult(Template("item.title", <<r.items[i]>>),
                                          "item.snippet",
                                          Template("item.link", <<r.items[i]>>),
                                          "Orto.nu")],
              calls |-> <<c>>]

\* a default that leaves Orto.nu out
EnabledSources_NoOrto(rq) ==
    IF rq.hasSources THEN rq.sources ELSE [s \in SourceIds |-> s # "orto"]

\* sources || { pubmed: true, medlineplus: true, internetmedicin: true, orto: true }
EnabledSources(rq) == IF rq.hasSources THEN rq.sources ELSE AllSources

Skipped == [results |-> <<>>, calls |-> <<>>]

\* the search handler: the replies are those of the backends it calls.
\* calls is grouped by backend client; byClient holds, per source, what
\* its backend client returned.
SearchHandler(e, rq, es, su, ml, im, ot) ==
    IF QueryMissing(rq.query)
    THEN [resp |-> Response("search", rq.from, 400, "Query is required", ""),
          calls |-> <<>>, byClient |-> [s \in SourceIds |-> <<>>]]
    ELSE LET q == rq.query.str
             enabledSources == EnabledSources(rq)
             pm == IF enabledSources.pubmed THEN searchPubMed(q, es, su) ELSE Skipped
             mp == IF enabledSources.medlineplus THEN searchMedlinePlus(q, ml) ELSE Skipped
             nm == IF enabledSources.internetmedicin
                   THEN searchInternetmedicin(q, e, im) ELSE Skipped
             ort == IF enabledSources.orto THEN searchOrto(q, e, ot) ELSE Skipped
             resultsArrays == <<pm.results, mp.results, nm.results, ort.results>>
         IN  [resp |-> [Response("search", rq.from, 200, "", "")
                          EXCEPT !.results = flat(resultsArrays)],
              calls |-> pm.calls \o mp.calls \o nm.calls \o ort.calls,
              byClient |-> [s \in SourceIds |->
                              IF s = "pubmed" THEN pm.results
                              ELSE IF s = "medlineplus" THEN mp.results
                              ELSE IF s = "internetmedicin" THEN nm.results
                              ELSE ort.results]]

(***************************************************************************)
(* ai-search route.                                                        *)
(***************************************************************************)
Svar == <<" ","s","v","a","r","\n">>

Part(hasText, text) == [hasText |-> hasText, text |-> text]

\* a grounding chunk: chunk.web.title and chunk.web.uri may be missing
Chunk(id, hasTitle, hasUri) == [id |-> id, hasTitle |-> hasTitle, hasUri |-> hasUri]

\* errText: the error body of a non-ok status; chunks: groundingMetadata.groundingChunks
GenReply(kind, errText, candidate, parts, hasChunks, chunks) ==
    [kind |-> kind, errText |-> errText, candidate |-> candidate, parts |-> parts,
     hasChunks |-> hasChunks, chunks |-> chunks]

NoGen == GenReply("none", "", FALSE, <<>>, FALSE, <<>>)

ChunkLists ==
    { <<>>,
      <<Chunk("1", FALSE, TRUE), Chunk("2", TRUE, TRUE)>>,
      <<Chunk("1", TRUE, TRUE), Chunk("2", TRUE, FALSE), Chunk("3", TRUE, TRUE)>> }

GenReplies ==
    { GenReply(k, "", FALSE, <<>>, FALSE, <<>>) : k \in {"reject", "badjson", "json"} }
    \cup { GenReply("status", t, FALSE, <<>>, FALSE, <<>>) :
             t \in {"quota exceeded", "google_search_retrieval is not supported"} }
    \cup { GenReply("json", "", TRUE, ps, FALSE, <<>>) :
             ps \in { <<>>, <<Part(FALSE, <<>>)>>, <<Part(TRUE, <<>>)>> } }
    \cup { GenReply("json", "", TRUE, <<Part(FALSE, <<>>), Part(TRUE, Svar)>>, FALSE, <<>>) }
    \cup { GenReply("json", "", TRUE, <<Part(TRUE, Svar)>>, TRUE, cs) : cs \in ChunkLists }

\* the failure that tells the grounding capability is unsupported
GroundingUnsupported(r) ==
    r.kind = "status" /\ r.errText = "google_search_retrieval is not supported"

\* parts.find(part => part.text): the parts that carry a non-empty text
TextParts(parts) == SelectSeq(parts, LAMBDA pt : pt.hasText /\ pt.text # <<>>)

GenOutcome(r) ==
    IF GroundingUnsupported(r) THEN "unsupported"
    ELSE IF r.kind # "json" \/ ~r.candidate \/ TextParts(r.parts) = <<>> THEN "failed"
    ELSE "ok"

GroundingSource(chunk) ==
    [title |-> Template("chunk.web.title", <<chunk.id>>),
     url |-> Template("chunk.web.uri", <<chunk.id>>)]

\* a test that forgets the title
Citable_UriOnly(chunk) == chunk.hasUri

\* chunk.web?.uri && chunk.web?.title
Citable(chunk) == chunk.hasUri /\ chunk.hasTitle

\* a list that never names orto.nu
SourceList_NoOrto(enabledSources) ==
    (IF enabledSources.internetmedicin
     THEN <<"internetmedicin.se (svensk medicinsk databas)">> ELSE <<>>)
    \o (IF enabledSources.pubmed
        THEN <<"pubmed.ncbi.nlm.nih.gov (vetenskapliga artiklar)">> ELSE <<>>)
    \o (IF enabledSources.medlineplus
        THEN <<"medlineplus.gov (patientinformation)">> ELSE <<>>)

\* the names pushed to sourceList, in the order of the four if statements
SourceList(enabledSources) ==
    (IF enabledSources.internetmedicin
     THEN <<"internetmedicin.se (svensk medicinsk databas)">> ELSE <<>>)
    \o (IF enabledSources.orto
        THEN <<"orto.nu (svensk ortopedisk information)">> ELSE <<>>)
    \o (IF enabledSources.pubmed
        THEN <<"pubmed.ncbi.nlm.nih.gov (vetenskapliga artiklar)">> ELSE <<>>)
    \o (IF enabledSources.medlineplus
        THEN <<"medlineplus.gov (patientinformation)">> ELSE <<>>)

\* the lines of sourcesText
SourcesText(enabledSources) ==
    IF Len(SourceList(enabledSources)) > 0 THEN SourceList(enabledSources)
    ELSE <<"internetmedicin.se", "orto.nu", "pubmed.ncbi.nlm.nih.gov", "medlineplus.gov">>

\* a flag raised by every answer of the grounded request
HasGrounding_Always(srcs) == TRUE

\* hasGrounding: sources.length > 0
HasGrounding(srcs) == Len(srcs) > 0

\* a test that is content with the credential of any provider
KeyMissing_AnyProvider(e) == ~e.google /\ ~e.anthropic /\ ~e.openai

\* !googleApiKey
KeyMissing(e) == ~e.google

\* a handler that answers a reply without candidate with an empty success
AiSearchHandler_Lenient(e, rq, r) ==
    IF Falsy(rq.query) \/ Falsy(rq.medicalTerms)
    THEN [resp |-> Response("ai-search", rq.from, 400,
                            "Query and medicalTerms are required", ""),
          calls |-> <<>>]
    ELSE IF KeyMissing(e)
    THEN [resp |-> Response("ai-search", rq.from, 500,
                            "Google API key not configured", ""),
          calls |-> <<>>]
    ELSE LET log == <<[Call("gemini_generate", TRUE,
                            SourcesText(EnabledSources(rq)), GenOutcome(r))
                         EXCEPT !.grounding = [present |-> r.hasChunks,
                                               chunks |-> r.chunks]]>>
             fail(msg) == [resp |-> Response("ai-search", rq.from, 500,
                                             "AI-sokning misslyckades", msg),
                           calls |-> log]
             texts == TextParts(r.parts)
             found == IF r.hasChunks
                      THEN SelectSeq(r.chunks, Citable)
                      ELSE <<>>
             srcs == [i \in 1..Len(found) |-> GroundingSource(found[i])]
         IN  IF r.kind = "reject" THEN fail("fetch failed")
             ELSE IF r.kind = "status" THEN fail("Gemini API error")
             ELSE IF r.kind = "badjson" THEN fail("SyntaxError")
             ELSE IF ~r.candidate
             THEN [resp |-> Response("ai-search", rq.from, 200, "", ""), calls |-> log]
             ELSE IF texts = <<>> THEN fail("Tomt svar fran Gemini")
             ELSE [resp |-> [Response("ai-search", rq.from, 200, "", "")
                               EXCEPT !.answer = trim(texts[1].text),
                                      !.sources = srcs,
                                      !.hasGrounding = HasGrounding(srcs)],
                   calls |-> log]

\* the ai-search handler: r is the reply of the generation backend
AiSearchHandler(e, rq, r) ==
    IF Falsy(rq.query) \/ Falsy(rq.medicalTerms)
    THEN [resp |-> Response("ai-search", rq.from, 400,
                            "Query and medicalTerms are required", ""),
          calls |-> <<>>]
    ELSE IF KeyMissing(e)
    THEN [resp |-> Response("ai-search", rq.from, 500,
                            "Google API key not configured", ""),
          calls |-> <<>>]
    ELSE LET log == <<[Call("gemini_generate", TRUE,
                            SourcesText(EnabledSources(rq)), GenOutcome(r))
                         EXCEPT !.grounding = [present |-> r.hasChunks,
                                               chunks |-> r.chunks]]>>
             fail(msg) == [resp |-> Response("ai-search", rq.from, 500,
                                             "AI-sokning misslyckades", msg),
                           calls |-> log]
             texts == TextParts(r.parts)
             found == IF r.hasChunks
                      THEN SelectSeq(r.chunks, Citable)
                      ELSE <<>>
             srcs == [i \in 1..Len(found) |-> GroundingSource(found[i])]
         IN  IF r.kind = "reject" THEN fail("fetch failed")
             ELSE IF r.kind = "status" THEN fail("Gemini API error")
             ELSE IF r.kind = "badjson" THEN fail("SyntaxError")
             ELSE IF ~r.candidate THEN fail("Inget svar fran Gemini")
             ELSE IF texts = <<>> THEN fail("Tomt svar fran Gemini")
             ELSE [resp |-> [Response("ai-search", rq.from, 200, "", "")
                               EXCEPT !.answer = trim(texts[1].text),
                                      !.sources = srcs,
                                      !.hasGrounding = HasGrounding(srcs)],
                   calls |-> log]

(***************************************************************************)
(* The state machine.                                                      *)
(***************************************************************************)
Envs == [anthropic : BOOLEAN, openai : BOOLEAN, google : BOOLEAN,
         cse : {"none", "placeholder", "set"}]

ExampleQuery == <<"b","a","d"," ","h","e","a","d","a","c","h","e"," ","w","i","t","h"," ",
                  "l","i","g","h","t"," ","s","e","n","s","i","t","i","v","i","t","y">>
FeverQuery == <<"F","e","v","e","r",","," ","h","e","a","d","a","c","h","e">>
KneeQuery == <<"S","o","r","e"," ","K","n","e","e">>

\* what the user types; the input element is `required`, so never empty
Queries == {ExampleQuery, FeverQuery, KneeQuery}

\* the query field of a request body sent by any HTTP caller
BodyQueries == {Undef, Str(<<>>)} \cup {Str(q) : q \in Queries}

BodyTerms == {Undef, Str(<<>>), Str(<<"f","l","u">>)}

NoContrib == [s \in SourceIds |-> <<>>]

NoError == Template("", <<>>)

Init ==
    /\ env \in Envs
    /\ req = NoReq
    /\ resp = NoResp
    /\ calls = <<>>
    /\ contrib = NoContrib
    /\ cpc = "idle"
    /\ flow = <<>>
    /\ query = <<>>
    /\ sources = AllSources
    /\ translatedQuery = <<>>
    /\ aiAnswer = <<>>
    /\ aiSources = <<>>
    /\ results = <<>>
    /\ loading = FALSE
    /\ error = NoError
    /\ promises = <<>>
    /\ settled = <<>>
    /\ fpc = "idle"

\* The route handlers keep no state between requests, so one request is
\* followed at a time: either a request of some other HTTP caller, posted
\* while the page is untouched, or the requests of one page.
\* the page has not been touched and no route has been called
Untouched == cpc = "idle" /\ req = NoReq /\ resp = NoResp

\* onChange of the text input
setQuery(q) ==
    /\ Untouched
    /\ query' = q
    /\ UNCHANGED <<fanVars, env, serverVars, cpc, flow, sources, translatedQuery,
                   aiAnswer, aiSources, results, loading, error>>

handleSourceToggle(source) ==
    /\ Untouched
    /\ sources' = [sources EXCEPT ![source] = ~sources[source]]
    /\ UNCHANGED <<fanVars, env, serverVars, cpc, flow, query, translatedQuery,
                   aiAnswer, aiSources, results, loading, error>>

\* an HTTP caller other than the page posts to a route
DirectRequest ==
    /\ Untouched /\ query = <<>> /\ sources = AllSources
    /\ \/ \E q \in BodyQueries :
            req' = Request("translate", "direct", q, Undef, FALSE, AllSources)
       \/ \E q \in BodyQueries, mt \in BodyTerms, sel \in Selections :
            \/ req' = Request("ai-search", "direct", q, mt, TRUE, sel)
            \/ req' = Request("ai-search", "direct", q, mt, FALSE, AllSources)
       \/ \E q \in BodyQueries, sel \in Selections :
            \/ req' = Request("search", "direct", q, Undef, TRUE, sel)
            \/ req' = Request("search", "direct", q, Undef, FALSE, AllSources)
    /\ resp' = NoResp
    /\ calls' = <<>>
    /\ contrib' = NoContrib
    /\ UNCHANGED <<fanVars, env, pageVars>>

\* POST of the translate route
TranslatePOST ==
    /\ req.route = "translate"
    /\ resp = NoResp
    /\ \E r \in LLMReplies :
         LET h == TranslateHandler(env, req, r)
         IN  /\ resp' = h.resp
             /\ calls' = h.calls
    /\ contrib' = NoContrib
    /\ UNCHANGED <<fanVars, env, req, pageVars>>

\* POST of the ai-search route
AiSearchPOST ==
    /\ req.route = "ai-search"
    /\ resp = NoResp
    /\ \E r \in GenReplies :
         LET h == AiSearchHandler(env, req, r)
         IN  /\ resp' = h.resp
             /\ calls' = h.calls
    /\ contrib' = NoContrib
    /\ UNCHANGED <<fanVars, env, req, pageVars>>

\* POST of the search route; a reply is drawn for each backend it calls
SearchPOST ==
    /\ req.route = "search"
    /\ resp = NoResp
    /\ LET on == EnabledSources(req)
           site == ~NoSiteSearch(env)
       IN  \E es \in (IF on.pubmed THEN EsearchReplies ELSE {NoEsearch}),
              ml \in (IF on.medlineplus THEN MedlineReplies ELSE {NoMedline}),
              im \in (IF on.internetmedicin /\ site THEN CseReplies ELSE {NoCse}),
              ot \in (IF on.orto /\ site THEN CseReplies ELSE {NoCse}) :
             \E su \in (IF es.hasIdlist /\ Len(es.ids) > 0
                        THEN EsummaryReplies(es.ids) ELSE {NoEsummary}) :
               LET h == SearchHandler(env, req, es, su, ml, im, ot)
               IN  /\ resp' = h.resp
                   /\ calls' = h.calls
                   /\ contrib' = h.byClient
    /\ UNCHANGED <<fanVars, env, req, pageVars>>

(***************************************************************************)
(* The page: handleSearch, one action per await.                           *)
(***************************************************************************)
Step(route, outcome) == [route |-> route, outcome |-> outcome]

\* flow with the outcome of its latest request filled in
Settled(outcome) == [flow EXCEPT ![Len(flow)].outcome = outcome]

\* the body of the request to /api/translate, /api/ai-search, /api/search
Fetch(route, q, mt, sel) ==
    /\ req' = (IF route = "translate"
               THEN Request(route, "page", Str(q), Undef, FALSE, AllSources)
               ELSE IF route = "ai-search"
               THEN Request(route, "page", Str(q), Str(mt), TRUE, sel)
               ELSE Request(route, "page", Str(mt), Undef, TRUE, sel))
    /\ resp' = NoResp
    /\ calls' = <<>>
    /\ contrib' = NoContrib

\* what await fetch(...) and await res.json() make of the response
Rejected == resp.status = 0
Decoded == resp.status # 0 /\ resp.decodable
\* a test that takes any delivered response for a success
Ok_AnyStatus == resp.status # 0

\* res.ok
Ok == resp.status >= 200 /\ resp.status <= 299

\* what happened to the latest request, as recorded in flow
Outcome ==
    IF resp.status = 0 THEN "rejected"
    ELSE IF resp.status < 200 \/ resp.status > 299 THEN "http error"
    ELSE IF ~resp.decodable THEN "undecodable"
    ELSE "ok"

\* the catch and finally blocks of handleSearch
Catch(message) ==
    /\ error' = message
    /\ loading' = FALSE
    /\ cpc' = "done"
    /\ flow' = Settled(Outcome)
    /\ req' = NoReq
    /\ resp' = NoResp
    /\ calls' = <<>>
    /\ contrib' = NoContrib

\* submit of the form, up to the first await
handleSearch ==
    /\ ~loading
    /\ query # <<>>
    /\ req.from # "direct"
    /\ loading' = TRUE
    /\ error' = NoError
    /\ results' = <<>>
    /\ aiAnswer' = <<>>
    /\ aiSources' = <<>>
    /\ translatedQuery' = <<>>
    /\ Fetch("translate", query, <<>>, sources)
    /\ cpc' = "translate"
    /\ flow' = <<Step("translate", "pending")>>
    /\ UNCHANGED <<fanVars, env, query, sources>>

\* errorData.details || errorData.error || "Oversattning misslyckades"
ErrorMsg(r) ==
    IF r.details # "" THEN r.details
    ELSE IF r.error # "" THEN r.error
    ELSE "Oversattning misslyckades"

\* after await fetch("/api/translate"), up to the next await
TranslateSettled ==
    /\ cpc = "translate"
    /\ resp.route = "translate" /\ resp.from = "page"
    /\ IF Rejected
       THEN /\ Catch(Template("fetch failed", <<>>))
            /\ UNCHANGED <<translatedQuery>>
       ELSE IF ~Decoded
       THEN /\ Catch(Template("SyntaxError", <<>>))
            /\ UNCHANGED <<translatedQuery>>
       ELSE IF ~Ok
       THEN /\ Catch(Template("Oversattning misslyckades: ", <<ErrorMsg(resp)>>))
            /\ UNCHANGED <<translatedQuery>>
       ELSE /\ translatedQuery' = resp.medicalTerms
            /\ Fetch("ai-search", query, resp.medicalTerms, sources)
            /\ cpc' = "ai-search"
            /\ flow' = Append(Settled(Outcome), Step("ai-search", "pending"))
            /\ UNCHANGED <<error, loading>>
    /\ UNCHANGED <<fanVars, env, query, sources, aiAnswer, aiSources, results>>

\* after await fetch("/api/ai-search"), up to the next await
AiSearchSettled ==
    /\ cpc = "ai-search"
    /\ resp.route = "ai-search" /\ resp.from = "page"
    /\ IF Rejected
       THEN /\ Catch(Template("fetch failed", <<>>))
            /\ UNCHANGED <<aiAnswer, aiSources>>
       ELSE IF Ok /\ ~Decoded
       THEN /\ Catch(Template("SyntaxError", <<>>))
            /\ UNCHANGED <<aiAnswer, aiSources>>
       ELSE /\ IF Ok
               THEN /\ aiAnswer' = resp.answer
                    /\ aiSources' = resp.sources
               ELSE UNCHANGED <<aiAnswer, aiSources>>
            /\ Fetch("search", query, translatedQuery, sources)
            /\ cpc' = "search"
            /\ flow' = Append(Settled(Outcome),
                              Step("search", "pending"))
            /\ UNCHANGED <<error, loading>>
    /\ UNCHANGED <<fanVars, env, query, sources, translatedQuery, results>>

\* after await fetch("/api/search"), to the end of handleSearch
SearchSettled ==
    /\ cpc = "search"
    /\ resp.route = "search" /\ resp.from = "page"
    /\ IF Rejected
       THEN /\ Catch(Template("fetch failed", <<>>))
            /\ UNCHANGED <<results>>
       ELSE IF Ok /\ ~Decoded
       THEN /\ Catch(Template("SyntaxError", <<>>))
            /\ UNCHANGED <<results>>
       ELSE /\ IF Ok THEN results' = resp.results ELSE UNCHANGED <<results>>
            /\ loading' = FALSE
            /\ cpc' = "done"
            /\ flow' = Settled(Outcome)
            /\ req' = NoReq
            /\ resp' = NoResp
            /\ calls' = <<>>
            /\ contrib' = NoContrib
            /\ UNCHANGED <<error>>
    /\ UNCHANGED <<fanVars, env, query, sources, translatedQuery, aiAnswer, aiSources>>

(***************************************************************************)
(* The network between the page and the routes.                            *)
(***************************************************************************)
\* the page's fetch rejects: the request or its response is lost
FetchRejects ==
    /\ req.from = "page"
    /\ resp = NoResp
    /\ resp' = Response(req.route, "page", 0, "", "")
    /\ UNCHANGED <<fanVars, env, req, calls, contrib, pageVars>>

\* a gateway answers in place of the route with a body that is not JSON,
\* so res.json() rejects
BodyUndecodable ==
    /\ req.from = "page"
    /\ resp = NoResp
    /\ \E st \in {200, 502} :
         resp' = [Response(req.route, "page", st, "", "") EXCEPT !.decodable = FALSE]
    /\ UNCHANGED <<fanVars, env, req, calls, contrib, pageVars>>

Next ==
    \/ \E q \in Queries : setQuery(q)
    \/ \E s \in SourceIds : handleSourceToggle(s)
    \/ DirectRequest
    \/ TranslatePOST
    \/ AiSearchPOST
    \/ SearchPOST
    \/ handleSearch
    \/ TranslateSettled
    \/ AiSearchSettled
    \/ SearchSettled
    \/ FetchRejects
    \/ BodyUndecodable

Spec == Init /\ [][Next]_vars

(***************************************************************************)
(* The search route, one step per settled backend call.                    *)
(***************************************************************************)
\* one element of the promises array: the client that was called, whether
\* it has returned, the await it stands at, the esearch reply it holds
\* and the array it returned
Promise(source, state, stage, es, res) ==
    [source |-> source, state |-> state, stage |-> stage, es |-> es, results |-> res]

\* the order of the four `if (enabledSources.x) promises.push(...)`
PushOrder == <<"pubmed", "medlineplus", "internetmedicin", "orto">>

\* calling an async client runs it up to its first await: a site client
\* without site search returns before any await, the others stand at
\* their first fetch
Started(source, q, e) ==
    IF source = "internetmedicin" /\ NoSiteSearch(e)
    THEN Promise(source, "fulfilled", "none", NoEsearch,
                 searchInternetmedicin(q, e, NoCse).results)
    ELSE IF source = "orto" /\ NoSiteSearch(e)
    THEN Promise(source, "fulfilled", "none", NoEsearch, searchOrto(q, e, NoCse).results)
    ELSE Promise(source, "pending", IF source = "pubmed" THEN "esearch" ELSE "fetch",
                 NoEsearch, <<>>)

\* the promises array after the four pushes
Pushed(rq, e) ==
    LET on == SelectSeq(PushOrder, LAMBDA s : EnabledSources(rq)[s])
    IN  [i \in 1..Len(on) |-> Started(on[i], rq.query.str, e)]

\* the indices of the promises that are settled when they are pushed
SettledAtPush(ps) ==
    SelectSeq([i \in 1..Len(ps) |-> i], LAMBDA i : ps[i].state = "fulfilled")

\* a Promise.all that hands the values over as they arrive
PromiseAll_ByArrival(ps, arrival) == [k \in 1..Len(arrival) |-> ps[arrival[k]].results]

\* Promise.all(promises): the values in the order of the array, whatever
\* the order of arrival
PromiseAll(ps, arrival) == [i \in 1..Len(ps) |-> ps[i].results]

\* a barrier that opens at the first settled promise
AllSettled_First(ps) == \E i \in 1..Len(ps) : ps[i].state = "fulfilled"

\* Promise.all resolves when every promise is fulfilled; the clients
\* catch every failure, so none rejects
AllSettled(ps) == \A i \in 1..Len(ps) : ps[i].state = "fulfilled"

FanQueries == {Undef, Str(<<>>), Str(KneeQuery)}

\* the search route is independent of the translation credentials
InitFan == Init /\ ~env.anthropic /\ ~env.openai

\* an HTTP caller posts to the search route
FanRequest ==
    /\ fpc = "idle" /\ req = NoReq
    /\ \E q \in FanQueries, sel \in Selections :
          \/ req' = Request("search", "direct", q, Undef, TRUE, sel)
          \/ req' = Request("search", "direct", q, Undef, FALSE, AllSources)
    /\ UNCHANGED <<env, resp, calls, contrib, pageVars, fanVars>>

\* POST up to `await Promise.all(promises)`
FanStart ==
    /\ fpc = "idle" /\ req.route = "search"
    /\ IF QueryMissing(req.query)
       THEN /\ resp' = Response("search", req.from, 400, "Query is required", "")
            /\ fpc' = "done"
            /\ UNCHANGED <<promises, settled>>
       ELSE /\ promises' = Pushed(req, env)
            /\ settled' = SettledAtPush(Pushed(req, env))
            /\ fpc' = "await"
            /\ UNCHANGED resp
    /\ UNCHANGED <<env, req, calls, contrib, pageVars>>

\* promise i stands at the await of the named client
Awaits(i, source, stage) ==
    /\ fpc = "await"
    /\ promises[i].state = "pending"
    /\ promises[i].source = source
    /\ promises[i].stage = stage

\* promise i returns res
Fulfil(i, res) ==
    /\ promises' = [promises EXCEPT ![i].state = "fulfilled", ![i].stage = "none",
                                    ![i].results = res]
    /\ settled' = Append(settled, i)

\* the esearch fetch of searchPubMed settles
PubMedEsearchSettles(i) ==
    /\ Awaits(i, "pubmed", "esearch")
    /\ \E es \in EsearchReplies :
         LET out == searchPubMed(req.query.str, es, NoEsummary)
         IN  /\ calls' = Append(calls, out.calls[1])
             /\ IF Len(out.calls) = 2
                THEN /\ promises' = [promises EXCEPT ![i].stage = "esummary", ![i].es = es]
                     /\ UNCHANGED settled
                ELSE Fulfil(i, out.results)
    /\ UNCHANGED <<env, req, resp, contrib, pageVars, fpc>>

\* the esummary fetch of searchPubMed settles
PubMedEsummarySettles(i) ==
    /\ Awaits(i, "pubmed", "esummary")
    /\ \E su \in EsummaryReplies(promises[i].es.ids) :
         LET out == searchPubMed(req.query.str, promises[i].es, su)
         IN  /\ calls' = Append(calls, out.calls[2])
             /\ Fulfil(i, out.results)
    /\ UNCHANGED <<env, req, resp, contrib, pageVars, fpc>>

\* the fetch of searchMedlinePlus settles
MedlinePlusSettles(i) ==
    /\ Awaits(i, "medlineplus", "fetch")
    /\ \E r \in MedlineReplies :
         LET out == searchMedlinePlus(req.query.str, r)
         IN  /\ calls' = calls \o out.calls
             /\ Fulfil(i, out.results)
    /\ UNCHANGED <<env, req, resp, contrib, pageVars, fpc>>

\* the fetch of searchInternetmedicin settles
InternetmedicinSettles(i) ==
    /\ Awaits(i, "internetmedicin", "fetch")
    /\ \E r \in CseReplies :
         LET out == searchInternetmedicin(req.query.str, env, r)
         IN  /\ calls' = calls \o out.calls
             /\ Fulfil(i, out.results)
    /\ UNCHANGED <<env, req, resp, contrib, pageVars, fpc>>

\* the fetch of searchOrto settles
OrtoSettles(i) ==
    /\ Awaits(i, "orto", "fetch")
    /\ \E r \in CseReplies :
         LET out == searchOrto(req.query.str, env, r)
         IN  /\ calls' = calls \o out.calls
             /\ Fulfil(i, out.results)
    /\ UNCHANGED <<env, req, resp, contrib, pageVars, fpc>>

\* what the promise of a source returned, [] when the source is not enabled
Returned(ps, source) ==
    LET at == {i \in 1..Len(ps) : ps[i].source = source}
    IN  IF at = {} THEN <<>> ELSE ps[CHOOSE i \in at : TRUE].results

\* POST from `await Promise.all(promises)` to the response
FanReturn ==
    /\ fpc = "await"
    /\ AllSettled(promises)
    /\ LET resultsArrays == PromiseAll(promises, settled)
       IN  resp' = [Response("search", req.from, 200, "", "")
                      EXCEPT !.results = flat(resultsArrays)]
    /\ contrib' = [s \in SourceIds |-> Returned(promises, s)]
    /\ fpc' = "done"
    /\ UNCHANGED <<env, req, calls, pageVars, promises, settled>>

NextFan ==
    \/ FanRequest
    \/ FanStart
    \/ \E i \in 1..Len(promises) : PubMedEsearchSettles(i)
    \/ \E i \in 1..Len(promises) : PubMedEsummarySettles(i)
    \/ \E i \in 1..Len(promises) : MedlinePlusSettles(i)
    \/ \E i \in 1..Len(promises) : InternetmedicinSettles(i)
    \/ \E i \in 1..Len(promises) : OrtoSettles(i)
    \/ FanReturn

SpecFan == InitFan /\ [][NextFan]_vars

(***************************************************************************)
(* Properties.                                                             *)
(***************************************************************************)
\* the route handler has answered the request in req
Handled(route) ==
    req.route = route /\ resp.route = route /\ resp.status # 0 /\ resp.decodable

Endpoints == {calls[i].endpoint : i \in 1..Len(calls)}

FailedEndpoints == {calls[i].endpoint : i \in {j \in 1..Len(calls) : calls[j].outcome = "failed"}}

\* the results of the response that are attributed to a source
From(source) == SelectSeq(resp.results, LAMBDA x : x.source = source)

\* C1: for a non-empty query, a success response of translate never
\* carries an empty medicalTerms
C1_NeverEmptySuccess ==
    (Handled("translate") /\ req.query.def /\ req.query.str # <<>> /\ resp.status = 200)
        => resp.medicalTerms # <<>>

\* C2: a request whose query is empty or missing is answered with status
\* 400 by translate, search and ai-search, and no backend request is issued
C2_EmptyQueryRejected ==
    \A route \in {"translate", "search", "ai-search"} :
        (Handled(route) /\ (~req.query.def \/ req.query.str = <<>>))
            => (resp.status = 400 /\ resp.error # "" /\ calls = <<>>)

C2_Witness ==
    /\ Handled("search")
    /\ req.query = Str(<<>>)
    /\ resp.status = 400

\* C3: when a PubMed call fails, search still answers with a success made
\* of exactly the results of the other backend clients, in which PubMed
\* has no result and which carries no error
C3_PubMedFailureIsolated ==
    (Handled("search") /\ FailedEndpoints \cap {"pubmed_esearch", "pubmed_esummary"} # {})
        => /\ resp.status = 200
           /\ resp.error = ""
           /\ contrib["pubmed"] = <<>>
           /\ From("PubMed") = <<>>
           /\ resp.results = contrib["medlineplus"] \o contrib["internetmedicin"]
                               \o contrib["orto"]

C3_Witness ==
    /\ Handled("search")
    /\ "pubmed_esummary" \in FailedEndpoints
    /\ From("MedlinePlus") # <<>>
    /\ From("Internetmedicin") # <<>>
    /\ From("Orto.nu") # <<>>

\* the number of ids the esearch request asks for (retmax=5)
PubMedCap == 5

\* C4: in a success response of search the results attributed to PubMed
\* are at most 5 and those attributed to MedlinePlus at most 3
C4_PerSourceCaps ==
    (Handled("search") /\ resp.status = 200)
        => /\ Len(From("PubMed")) <= PubMedCap
           /\ Len(From("MedlinePlus")) <= MedlineCap

\* C5: when the generation backend fails with grounding unsupported,
\* ai-search resubmits once without the grounding tool and answers with a
\* success whose hasGrounding is false
C5_GroundingFallback ==
    (Handled("ai-search") /\ \E i \in 1..Len(calls) : calls[i].outcome = "unsupported")
        => /\ resp.status = 200
           /\ ~resp.hasGrounding
           /\ Len(calls) = 2
           /\ calls[1].tools /\ ~calls[2].tools

\* the direct-search result a site source gives without credential
DegradedOnly(source, endpoint, base) ==
    /\ endpoint \notin Endpoints
    /\ Len(From(source)) = 1
    /\ From(source)[1].url = Template(base, encodeURIComponent(req.query.str))
    /\ From(source)[1].source = source

Matching(q) == {i \in 1..Len(mappings) : includes(toLowerCase(q), mappings[i].layman)}

RECURSIVE TermsOf(_)
\* the medical terms of a set of rows, by increasing row number
TermsOf(rows) ==
    IF rows = {} THEN <<>>
    ELSE LET lo == CHOOSE i \in rows : \A j \in rows : i <= j
         IN  <<mappings[lo].medical>> \o TermsOf(rows \ {lo})

\* C7: without any translation credential, translate issues no backend
\* request and answers with the terms of the matching table rows joined by
\* ", " in table order, or with the query unchanged when no row matches
C7_LocalFallback ==
    (Handled("translate") /\ req.query.def /\ req.query.str # <<>>
       /\ ~env.anthropic /\ ~env.openai /\ ~env.google)
        => /\ calls = <<>>
           /\ resp.status = 200
           /\ resp.medicalTerms =
                (IF Matching(req.query.str) = {} THEN req.query.str
                 ELSE join(TermsOf(Matching(req.query.str)), <<",", " ">>))
           /\ req.query.str = ExampleQuery
                => resp.medicalTerms =
                     <<"c","e","p","h","a","l","g","i","a",","," ",
                       "p","h","o","t","o","p","h","o","b","i","a">>
           /\ req.query.str = FeverQuery
                => resp.medicalTerms =
                     <<"c","e","p","h","a","l","g","i","a",","," ",
                       "p","y","r","e","x","i","a">>
           /\ req.query.str = KneeQuery
                => resp.medicalTerms = <<"S","o","r","e"," ","K","n","e","e">>

C7_Witness ==
    /\ Handled("translate")
    /\ ~env.anthropic /\ ~env.openai /\ ~env.google
    /\ req.query = Str(ExampleQuery)
    /\ resp.medicalTerms = <<"c","e","p","h","a","l","g","i","a",","," ",
                             "p","h","o","t","o","p","h","o","b","i","a">>

\* C8: translate calls exactly the first provider, in the order Anthropic,
\* OpenAI, Google, whose credential is present, calls it once and calls no
\* other provider; without any credential it calls none
C8_ProviderPriority ==
    (Handled("translate") /\ resp.status # 400)
        => /\ Len(calls) <= 1
           /\ env.anthropic => Endpoints = {"anthropic"}
           /\ (~env.anthropic /\ env.openai) => Endpoints = {"openai"}
           /\ (~env.anthropic /\ ~env.openai /\ env.google) => Endpoints = {"google"}
           /\ (~env.anthropic /\ ~env.openai /\ ~env.google) => Endpoints = {}

C8_Witness ==
    /\ Handled("translate")
    /\ ~env.anthropic /\ env.openai /\ env.google
    /\ Len(calls) = 1
    /\ calls[1].endpoint = "openai"

\* C9: when the call of the selected provider fails, translate answers
\* with an error and no terms, having called no other provider
C9_FailurePropagates ==
    (Handled("translate") /\ FailedEndpoints # {})
        => /\ resp.status = 500
           /\ resp.error = "Translation failed"
           /\ resp.medicalTerms = <<>>
           /\ Len(calls) = 1

C9_Witness ==
    /\ Handled("translate")
    /\ env.anthropic /\ env.openai /\ env.google
    /\ FailedEndpoints = {"anthropic"}
    /\ resp.status = 500

\* a step of the flow that failed
Failed(step) == step.outcome \in {"rejected", "http error", "undecodable"}

\* C10: the page requests ai-search or search only after translate has
\* answered with a success; when translate fails the flow ends with an
\* error message and neither of the two is requested
C10_TranslateBarrier ==
    /\ (req.from = "page" /\ req.route \in {"ai-search", "search"})
          => (Len(flow) >= 2 /\ flow[1] = Step("translate", "ok"))
    /\ \A i \in 1..Len(flow) :
          flow[i].route \in {"ai-search", "search"}
              => (i >= 2 /\ flow[1] = Step("translate", "ok"))
    /\ (Len(flow) >= 1 /\ Failed(flow[1]))
          => /\ flow = <<flow[1]>>
             /\ flow[1].route = "translate"
             /\ cpc = "done"
             /\ req = NoReq
             /\ error # NoError
             /\ ~loading

C10_Witness ==
    /\ cpc = "done"
    /\ flow = <<Step("translate", "http error")>>
    /\ error = Template("Oversattning misslyckades: ", <<"Anthropic API error">>)

\* C11: once translate has succeeded, ai-search and search are both
\* requested before the flow ends, however the other one fails
C11_BothRequested ==
    (cpc = "done" /\ Len(flow) >= 1 /\ flow[1] = Step("translate", "ok"))
        => /\ Len(flow) = 3
           /\ flow[2].route = "ai-search"
           /\ flow[3].route = "search"

\* the sources of the promises array, in array order
StartedSources == [i \in 1..Len(promises) |-> promises[i].source]

\* C13: for a request without source selection, search starts the backend
\* client of each of the four sources exactly once
C13_DefaultAllSources ==
    (req.route = "search" /\ ~req.hasSources /\ fpc \in {"await", "done"}
       /\ req.query.def /\ req.query.str # <<>>)
        => /\ Len(promises) = 4
           /\ \A s \in SourceIds :
                Cardinality({i \in 1..Len(promises) : promises[i].source = s}) = 1

C13_Witness ==
    /\ req.route = "search" /\ ~req.hasSources
    /\ fpc = "done" /\ resp.status = 200
    /\ StartedSources = <<"pubmed", "medlineplus", "internetmedicin", "orto">>
    /\ Endpoints = {"pubmed_esearch", "pubmed_esummary", "medlineplus",
                    "cse_internetmedicin", "cse_orto"}

\* the place of a result's source in the fixed source order
Rank(source) ==
    CASE source = "PubMed" -> 1
      [] source = "MedlinePlus" -> 2
      [] source = "Internetmedicin" -> 3
      [] OTHER -> 4

\* C14: whatever the order in which the backend calls settle, the result
\* list of search is the concatenation of what the clients returned, in
\* the order PubMed, MedlinePlus, Internetmedicin, Orto.nu, and results of
\* different sources are not interleaved
C14_FixedSourceOrder ==
    (Handled("search") /\ resp.status = 200 /\ fpc = "done")
        => /\ resp.results = contrib["pubmed"] \o contrib["medlineplus"]
                               \o contrib["internetmedicin"] \o contrib["orto"]
           /\ \A i, j \in 1..Len(resp.results) :
                i < j => Rank(resp.results[i].source) <= Rank(resp.results[j].source)
           /\ From("PubMed") = contrib["pubmed"]
           /\ From("MedlinePlus") = contrib["medlineplus"]
           /\ From("Internetmedicin") = contrib["internetmedicin"]
           /\ From("Orto.nu") = contrib["orto"]

C14_Witness ==
    /\ Handled("search") /\ resp.status = 200 /\ fpc = "done"
    /\ settled = <<4, 3, 2, 1>>
    /\ Len(From("PubMed")) > 1
    /\ Len(From("MedlinePlus")) > 1
    /\ Len(From("Internetmedicin")) > 1
    /\ Len(From("Orto.nu")) > 1

\* C15: search has started the backend call of every enabled source
\* before any of them is awaited, and it answers only when every started
\* call has settled, by success or by failure
C15_FanBarrier ==
    /\ (fpc = "idle") => (promises = <<>> /\ settled = <<>> /\ calls = <<>>)
    /\ (fpc \in {"await", "done"} /\ resp.status # 400)
          => StartedSources = SelectSeq(PushOrder, LAMBDA s : EnabledSources(req)[s])
    /\ (resp.route = "search" /\ resp.status = 200)
          => /\ \A i \in 1..Len(promises) : promises[i].state = "fulfilled"
             /\ Len(settled) = Len(promises)
             /\ \A i \in 1..Len(promises) : \E k \in 1..Len(settled) : settled[k] = i

C15_Witness ==
    /\ resp.route = "search" /\ resp.status = 200
    /\ Len(promises) = 4
    /\ settled = <<2, 4, 1, 3>>
    /\ FailedEndpoints = {"medlineplus", "pubmed_esummary"}
    /\ From("Orto.nu") # <<>>

\* the backend of a source was called and its call failed
BackendFailed(source) ==
    CASE source = "pubmed" -> FailedEndpoints \cap {"pubmed_esearch", "pubmed_esummary"} # {}
      [] source = "medlineplus" -> "medlineplus" \in FailedEndpoints
      [] source = "internetmedicin" -> "cse_internetmedicin" \in FailedEndpoints
      [] OTHER -> "cse_orto" \in FailedEndpoints

\* every enabled source had its backend called, and every such call failed
AllBackendsFailed ==
    /\ \E s \in SourceIds : EnabledSources(req)[s]
    /\ \A s \in SourceIds : EnabledSources(req)[s] => BackendFailed(s)

\* C16 as stated: a backend whose call fails contributes no result,
\* whatever the source, and when every enabled backend fails search
\* answers with a success and an empty list
C16_FailedContributesNothing ==
    (Handled("search") /\ FailedEndpoints # {})
        => /\ resp.status = 200
           /\ \A s \in SourceIds : BackendFailed(s) => contrib[s] = <<>>
           /\ AllBackendsFailed => resp.results = <<>>

\* the link a site client returns from its catch block
ErrorLink(site, source, base) ==
    SearchResult(Template(site, req.query.str),
                 "Error fetching results. Click to search directly.",
                 Template(base, encodeURIComponent(req.query.str)), source)

\* C16, amended: a failing PubMed or MedlinePlus backend contributes no
\* result and a failing Internetmedicin or Orto.nu backend contributes
\* exactly one direct-search link; search still answers with a success,
\* which holds nothing but such links when every enabled backend fails
C16_FailureAbsorbed ==
    (Handled("search") /\ FailedEndpoints # {})
        => /\ resp.status = 200
           /\ resp.error = ""
           /\ BackendFailed("pubmed") => contrib["pubmed"] = <<>>
           /\ BackendFailed("medlineplus") => contrib["medlineplus"] = <<>>
           /\ BackendFailed("internetmedicin")
                => contrib["internetmedicin"] =
                     <<ErrorLink("Search Internetmedicin for: ", "Internetmedicin",
                                 "https://www.internetmedicin.se/search?q=")>>
           /\ BackendFailed("orto")
                => contrib["orto"] =
                     <<ErrorLink("Search Orto.nu for: ", "Orto.nu",
                                 "https://www.orto.nu/search?q=")>>
           /\ AllBackendsFailed
                => resp.results =
                     (IF EnabledSources(req)["internetmedicin"]
                      THEN <<ErrorLink("Search Internetmedicin for: ", "Internetmedicin",
                                       "https://www.internetmedicin.se/search?q=")>>
                      ELSE <<>>)
                     \o (IF EnabledSources(req)["orto"]
                         THEN <<ErrorLink("Search Orto.nu for: ", "Orto.nu",
                                          "https://www.orto.nu/search?q=")>>
                         ELSE <<>>)

C16_Witness ==
    /\ Handled("search")
    /\ EnabledSources(req) = AllSources
    /\ AllBackendsFailed
    /\ "pubmed_esummary" \in FailedEndpoints
    /\ Len(resp.results) = 2
    /\ resp.results[2].source = "Orto.nu"

\* C17: when the generation backend fails otherwise than by grounding
\* unsupported, ai-search answers with an error that carries no answer,
\* and the failed request is the last one it sends
C17_GenerationFailureTerminal ==
    (Handled("ai-search") /\ \E i \in 1..Len(calls) : calls[i].outcome = "failed")
        => /\ resp.status = 500
           /\ resp.error = "AI-sokning misslyckades"
           /\ resp.details # ""
           /\ resp.answer = <<>>
           /\ resp.sources = <<>>
           /\ ~resp.hasGrounding
           /\ calls[Len(calls)].outcome = "failed"
           /\ Len(calls) = 1

C17_Witness ==
    /\ Handled("ai-search")
    /\ Len(calls) = 1
    /\ calls[1].outcome = "failed"
    /\ resp.status = 500
    /\ resp.details = "Tomt svar fran Gemini"

\* how many times an endpoint was requested
Count(endpoint) == Cardinality({i \in 1..Len(calls) : calls[i].endpoint = endpoint})

\* C18: within one invocation of translate, search or ai-search no
\* endpoint is requested twice, ai-search alone being allowed two
\* generation requests; a failed request is the last one of translate and
\* of ai-search, which report it, and of the client that absorbs it
C18_NoRetry ==
    \A route \in {"translate", "search", "ai-search"} :
        Handled(route)
            => /\ \A ep \in Endpoints \ {"gemini_generate"} : Count(ep) = 1
               /\ Count("gemini_generate") <= (IF route = "ai-search" THEN 2 ELSE 1)
               /\ (route # "search" /\ FailedEndpoints # {})
                     => /\ calls[Len(calls)].outcome = "failed"
                        /\ \A i \in 1..(Len(calls) - 1) : calls[i].outcome # "failed"
                        /\ resp.status = 500
               /\ (route = "search" /\ "pubmed_esearch" \in FailedEndpoints)
                     => "pubmed_esummary" \notin Endpoints
               /\ route = "search" => Len(calls) <= 5

C18_Witness ==
    /\ Handled("search")
    /\ Len(calls) = 4
    /\ FailedEndpoints = {"pubmed_esearch", "medlineplus", "cse_internetmedicin", "cse_orto"}

\* the source a line of the scoping instruction names
NamedBy(line) ==
    CASE line \in {"internetmedicin.se (svensk medicinsk databas)", "internetmedicin.se"}
           -> "internetmedicin"
      [] line \in {"orto.nu (svensk ortopedisk information)", "orto.nu"} -> "orto"
      [] line \in {"pubmed.ncbi.nlm.nih.gov (vetenskapliga artiklar)",
                   "pubmed.ncbi.nlm.nih.gov"} -> "pubmed"
      [] line \in {"medlineplus.gov (patientinformation)", "medlineplus.gov"}
           -> "medlineplus"
      [] OTHER -> "unknown"

NamedSources(scope) == {NamedBy(scope[i]) : i \in 1..Len(scope)}

\* the sources the selection of the request enables
Selected == {s \in SourceIds : req.sources[s]}

\* C19 as stated: for every source selection, the empty one included, the
\* scoping instruction of the generation request names exactly the
\* enabled sources
C19_ScopeIsSelection ==
    (Handled("ai-search") /\ req.hasSources /\ calls # <<>>)
        => NamedSources(calls[1].scope) = Selected

\* C19, amended: with at least one source enabled the scoping instruction
\* names exactly the enabled sources, each once; with none enabled it
\* names all four
C19_ScopeOrAll ==
    (Handled("ai-search") /\ req.hasSources /\ calls # <<>>)
        => /\ Selected # {}
                => /\ NamedSources(calls[1].scope) = Selected
                   /\ Len(calls[1].scope) = Cardinality(Selected)
           /\ Selected = {}
                => /\ NamedSources(calls[1].scope) = SourceIds
                   /\ Len(calls[1].scope) = 4

C19_Witness ==
    /\ Handled("ai-search") /\ req.hasSources
    /\ Selected = {"orto", "pubmed"}
    /\ Len(calls) = 1
    /\ calls[1].scope = <<"orto.nu (svensk ortopedisk information)",
                          "pubmed.ncbi.nlm.nih.gov (vetenskapliga artiklar)">>

\* the places of the chunks of a reply that have both a title and a uri
Cited(chunks) == {i \in 1..Len(chunks) : chunks[i].hasTitle /\ chunks[i].hasUri}

\* C20: when the reply carries an answer text ai-search succeeds; without
\* grounding metadata the sources are empty, and with it they are, in the
\* order of the reply, the title and uri of every chunk that has both
C20_SourcesFromChunks ==
    (Handled("ai-search") /\ Len(calls) = 1 /\ calls[1].outcome = "ok")
        => LET g == calls[1].grounding
               at == Cited(g.chunks)
           IN  /\ resp.status = 200
               /\ resp.error = ""
               /\ ~g.present => resp.sources = <<>>
               /\ g.present
                    => /\ Len(resp.sources) = Cardinality(at)
                       /\ \A i \in at :
                            LET k == Cardinality({j \in at : j <= i})
                            IN  resp.sources[k] =
                                  [title |-> Template("chunk.web.title", <<g.chunks[i].id>>),
                                   url |-> Template("chunk.web.uri", <<g.chunks[i].id>>)]
               /\ resp.hasGrounding = (resp.sources # <<>>)

C20_Witness ==
    /\ Handled("ai-search")
    /\ resp.status = 200
    /\ calls[1].grounding.present
    /\ Len(calls[1].grounding.chunks) = 3
    /\ resp.sources = <<[title |-> Template("chunk.web.title", <<"1">>),
                         url |-> Template("chunk.web.uri", <<"1">>)],
                        [title |-> Template("chunk.web.title", <<"3">>),
                         url |-> Template("chunk.web.uri", <<"3">>)]>>

\* C21: when ai-search or search has answered the page with an error
\* response, the state the flow ends in shows that a step failed
C21_FailureIndicated ==
    (cpc = "done"
       /\ \E i \in 1..Len(flow) :
            flow[i].route \in {"ai-search", "search"} /\ flow[i].outcome = "http error")
        => error # NoError

\* C22: in a success response of ai-search, hasGrounding is true exactly
\* when the sources list is not empty
C22_HasGroundingIffSources ==
    (Handled("ai-search") /\ resp.status = 200)
        => /\ resp.hasGrounding <=> Len(resp.sources) > 0
           /\ ~resp.hasGrounding => resp.sources = <<>>

C22_Witness ==
    /\ Handled("ai-search")
    /\ resp.status = 200
    /\ calls[1].grounding.present
    /\ calls[1].grounding.chunks = <<>>
    /\ ~resp.hasGrounding
    /\ resp.sources = <<>>

\* C23: without the Google credential ai-search sends no request to the
\* generation backend and answers a request that carries query and terms
\* with the 500 configuration error, whatever other credential is
\* present, and the page never holds an answer
C23_GoogleCredentialAlone ==
    ~env.google
        => /\ Handled("ai-search")
                => /\ calls = <<>>
                   /\ resp.answer = <<>>
                   /\ resp.sources = <<>>
                   /\ IF Falsy(req.query) \/ Falsy(req.medicalTerms)
                      THEN resp.status = 400
                      ELSE /\ resp.status = 500
                           /\ resp.error = "Google API key not configured"
           /\ \A i \in 1..Len(calls) : calls[i].endpoint # "gemini_generate"
           /\ aiAnswer = <<>>
           /\ aiSources = <<>>
           /\ \A i \in 1..Len(flow) :
                (flow[i].route = "ai-search" /\ flow[i].outcome # "pending")
                    => Failed(flow[i])

C23_Witness ==
    /\ ~env.google /\ env.anthropic
    /\ cpc = "done"
    /\ flow = <<Step("translate", "ok"), Step("ai-search", "http error"),
                Step("search", "ok")>>
    /\ translatedQuery = <<"f","l","u">>
    /\ aiAnswer = <<>>
    /\ results # <<>>

====
